---- MODULE Spec2Model ----
(***************************************************************************)
(* Model of the K6 reconciler (controllers/k6_controller.go) and of the    *)
(* worker poller StoppedJobs / KillJobs.  One run object is persisted in   *)
(* the cluster; Reconcile is a single worker (MaxConcurrentReconciles: 1)  *)
(* whose invocation is split at the two API calls of UpdateStatus (the     *)
(* refetch and the patch), the only places where another writer of the     *)
(* persisted status can interleave.                                        *)
(***************************************************************************)
EXTENDS Integers, Sequences, FiniteSets, TLC

VARIABLES
    exists,          \* the run object is present in the cluster
    k6obj,           \* persisted status of the run: [stage, cond, id]
    Cleanup,         \* k6.Spec.Cleanup
    K6CloudClient,   \* r.K6CloudClient # nil
    jobs,            \* number of worker job handles present
    pc,              \* position of the reconciler worker
    cont,            \* what follows the running UpdateStatus call
    k6,              \* the in-memory object of the running invocation
    proposedStatus,  \* UpdateStatus: proposedStatus := k6.Status
    cleanObj,        \* UpdateStatus: deep copy taken after the refetch
    res,             \* (ctrl.Result, error) of the last invocation
    inv,             \* what the running / last invocation did
    upd,             \* outcome of the running / last UpdateStatus call
    writes           \* number of writes by other writers so far

vars == <<exists, k6obj, Cleanup, K6CloudClient, jobs, pc, cont, k6,
          proposedStatus, cleanObj, res, inv, upd, writes>>

----------------------------------------------------------------------------
(* Bounds *)

MaxWorkers == 2
MaxJobs == 2
MaxWrites == 1

----------------------------------------------------------------------------
(* Data model *)

Conds == {"CloudTestRun", "CloudTestRunCreated", "CloudTestRunFinalized",
          "CloudTestRunAborted", "CloudPLZTestRun", "TestRunRunning"}

Tri == {"Unknown", "True", "False"}

StageOrder == <<"", "initialization", "initialized", "created", "started",
                "stopped", "finished">>

Stages == {StageOrder[i] : i \in 1..Len(StageOrder)} \cup {"error"}

Rank(s) == CHOOSE i \in 1..Len(StageOrder) : StageOrder[i] = s

TestRunIDs == {"", "id"}

IsTrue(st, c) == st.cond[c] = "True"
IsFalse(st, c) == st.cond[c] = "False"
IsUnknown(st, c) == st.cond[c] = "Unknown"

UpdateCondition(st, c, v) == [st EXCEPT !.cond[c] = v]

EmptyStatus == [stage |-> "", cond |-> [c \in Conds |-> "Unknown"], id |-> ""]

Result(requeue, err) == [requeue |-> requeue, err |-> err]

\* fetch: how the refetch ended; changed: isNewer; issued: a patch was sent;
\* ret, err: the values returned
NoUpdate == [fetch |-> "none", changed |-> FALSE, issued |-> FALSE,
             ret |-> FALSE, err |-> FALSE]

NewInvocation(stage0) ==
    [stage0 |-> stage0, polled |-> FALSE, listErr |-> FALSE, probes |-> <<>>,
     allStopped |-> FALSE, killed |-> FALSE, finalize |-> "none",
     abortChecked |-> FALSE, getState |-> "none", shouldAbort |-> FALSE,
     abortId |-> "n/a", stopJobs |-> FALSE, callIds |-> {}, deleted |-> FALSE,
     notFound |-> FALSE, killErr |-> FALSE, allDeleted |-> FALSE,
     failures |-> {}, finishJobs |-> "none", token |-> "none",
     effects |-> 0]

----------------------------------------------------------------------------
(* Status Updater: the forward-only merge and the diff-based patch *)

\* a stage may only move forward in the fixed order; error is entered from
\* any stage that is not terminal
StageForward(old, new) ==
    \/ new = "error" /\ old \notin {"error", "finished"}
    \/ new # "error" /\ old # "error" /\ Rank(new) > Rank(old)

\* a condition may only move Unknown -> True, Unknown -> False, or stay
MergeCondition(old, new) == IF old = "Unknown" THEN new ELSE old

\* scalar fields may only move from empty to non-empty
MergeTestRunID(old, new) == IF old = "" THEN new ELSE old

\* status.SetIfNewer(proposed): the merged status; isNewer is merged # status
SetIfNewer(status, proposed) ==
    [stage |-> IF StageForward(status.stage, proposed.stage)
               THEN proposed.stage ELSE status.stage,
     cond  |-> [c \in Conds |-> MergeCondition(status.cond[c], proposed.cond[c])],
     id    |-> MergeTestRunID(status.id, proposed.id)]

\* if !isNewer { return false, nil }
SkipPatchNever(isNewer) == FALSE

SkipPatch(isNewer) == ~isNewer

\* client.MergeFrom(cleanObj): a JSON merge patch holds the fields that differ
\* between cleanObj and the merged object (the conditions list as a whole),
\* and carries no resourceVersion; the server applies it to whatever is
\* persisted at that moment
ApplyPatch(current, clean, merged) ==
    [stage |-> IF merged.stage # clean.stage THEN merged.stage ELSE current.stage,
     cond  |-> IF merged.cond # clean.cond THEN merged.cond ELSE current.cond,
     id    |-> IF merged.id # clean.id THEN merged.id ELSE current.id]

\* the steps of a Reconcile invocation
CallUpdateStatus(obj, next) ==
    /\ k6' = obj
    /\ proposedStatus' = obj
    /\ pc' = "refetch"
    /\ cont' = next
    /\ upd' = NoUpdate
    /\ UNCHANGED <<cleanObj, res>>

\* the invocation returns r; its local objects are gone
Return(r) ==
    /\ pc' = "idle"
    /\ cont' = "none"
    /\ res' = r
    /\ k6' = EmptyStatus
    /\ proposedStatus' = EmptyStatus
    /\ cleanObj' = EmptyStatus
    /\ upd' = NoUpdate

\* UpdateStatus, lines 313-333: refetch, merge, decide
Refetch ==
    /\ pc = "refetch"
    /\ \E get \in {"ok", "err"} :
        /\ IF get = "err"
           THEN /\ upd' = [NoUpdate EXCEPT !.fetch = "err", !.err = TRUE]
                /\ inv' = [inv EXCEPT !.failures = @ \cup {"get"}]
                /\ pc' = "after"
                /\ UNCHANGED <<k6, cleanObj>>
           ELSE IF ~exists
           THEN /\ upd' = [NoUpdate EXCEPT !.fetch = "notfound"]
                /\ inv' = [inv EXCEPT !.notFound = TRUE]
                /\ pc' = "after"
                /\ UNCHANGED <<k6, cleanObj>>
           ELSE LET merged == SetIfNewer(k6obj, proposedStatus)
                    isNewer == merged # k6obj
                IN /\ cleanObj' = k6obj
                   /\ k6' = merged
                   /\ upd' = [NoUpdate EXCEPT !.fetch = "ok", !.changed = isNewer]
                   /\ pc' = IF SkipPatch(isNewer) THEN "after" ELSE "patch"
                   /\ UNCHANGED inv
    /\ UNCHANGED <<exists, k6obj, Cleanup, K6CloudClient, jobs, cont,
                   proposedStatus, res, writes>>

\* UpdateStatus, lines 335-349: the patch and its result
Patch ==
    /\ pc = "patch"
    /\ \E call \in {"ok", "err"} :
        IF call = "ok" /\ exists
        THEN /\ k6obj' = ApplyPatch(k6obj, cleanObj, k6)
             /\ k6' = k6obj'
             /\ upd' = [upd EXCEPT !.issued = TRUE, !.ret = TRUE]
             /\ inv' = [inv EXCEPT !.effects = @ + 1]
        ELSE /\ upd' = [upd EXCEPT !.issued = TRUE, !.err = TRUE]
             /\ inv' = [inv EXCEPT !.failures = @ \cup {"patch"}]
             /\ UNCHANGED <<k6obj, k6>>
    /\ pc' = "after"
    /\ UNCHANGED <<exists, Cleanup, K6CloudClient, jobs, cont, proposedStatus,
                   cleanObj, res, writes>>

----------------------------------------------------------------------------
(* Worker-Lifecycle Poller *)

\* what the status probe of one worker endpoint can come to
Probes == {"no_response", "http_error", "read_error", "decode_error",
           "stopped_true", "stopped_false"}

FailedProbes == {"no_response", "http_error", "read_error", "decode_error"}

ProbeLists == UNION {[1..n -> Probes] : n \in 0..MaxWorkers}

\* isJobRunning: false when http.Get fails, true on a status code >= 400, a
\* read error or a decode error, else status.Status().Stopped
isJobRunning(probe) ==
    CASE probe = "no_response"   -> FALSE
      [] probe = "http_error"    -> TRUE
      [] probe = "read_error"    -> TRUE
      [] probe = "decode_error"  -> TRUE
      [] probe = "stopped_true"  -> TRUE
      [] probe = "stopped_false" -> FALSE

\* the loop of StoppedJobs: count++ for every service found running
RunningCount(probes) == Cardinality({i \in DOMAIN probes : isJobRunning(probes[i])})

\* StoppedJobs: allStopped stays false when the list fails or count > 0
StoppedJobs(listErr, probes) ==
    IF listErr THEN FALSE
    ELSE IF RunningCount(probes) > 0 THEN FALSE
    ELSE TRUE

\* what a call of StoppedJobs can come to, over every list result and every
\* list of probe results
PollOutcomes ==
    {[listErr |-> listErr, allStopped |-> StoppedJobs(listErr, probes)] :
        listErr \in BOOLEAN, probes \in ProbeLists}

\* KillJobs: a failed list is returned as the error; a failed Delete is only
\* logged and the function returns nil
KillJobsErr(listErr) == listErr

\* KillJobs, lines 115-120: one bulk delete, if a job of the n listed was
\* deleted
KillJobsDeleted(listErr, n, left) ==
    IF ~listErr /\ left < n THEN 1 ELSE 0

\* KillJobs, lines 109-120: what failed in the call; the loop goes on to the
\* next job after a failed Delete, and left is the number of jobs it could
\* not delete
KillJobsFailures(listErr, left) ==
    IF listErr THEN {"list_jobs"}
    ELSE IF left > 0 THEN {"delete_job"}
    ELSE {}

----------------------------------------------------------------------------
(* Cloud Coordinator *)

ShouldAbortFailOpen(id, state) ==
    IF id = "" THEN FALSE
    ELSE IF state = "err" THEN TRUE
    ELSE state = "aborted"

\* ShouldAbort: false on an empty test run ID (no query), false when
\* GetTestRunState fails, else status.Aborted()
ShouldAbort(id, state) ==
    IF id = "" THEN FALSE
    ELSE IF state = "err" THEN FALSE
    ELSE state = "aborted"

\* ShouldAbort reaches cloud.GetTestRunState only past the sanity check
QueriesCloud(id) == id # ""

LoadsTokenAlways(obj) == IsTrue(obj, "CloudPLZTestRun")

\* lines 82 and 377: loadToken is called for a PLZ run while the client is nil
LoadsToken(obj) == IsTrue(obj, "CloudPLZTestRun") /\ ~K6CloudClient

\* createClient: the client is built only when it is nil and the token is ready
Bootstrap(obj, token) ==
    IF LoadsToken(obj)
    THEN token = "ready" /\ K6CloudClient' = TRUE
    ELSE token = "ready" /\ UNCHANGED K6CloudClient

----------------------------------------------------------------------------
(* Reconcile: the entry of an invocation, up to its first UpdateStatus *)

\* r.Get fails with NotFound: nothing to reconcile
ReconcileNotFound ==
    /\ pc = "idle"
    /\ ~exists
    /\ inv' = NewInvocation("gone")
    /\ Return(Result("none", FALSE))
    /\ UNCHANGED <<exists, k6obj, Cleanup, K6CloudClient, jobs, writes>>

\* r.Get fails with another error
ReconcileGetError ==
    /\ pc = "idle"
    /\ inv' = [NewInvocation("unread") EXCEPT !.failures = {"get"}]
    /\ Return(Result("now", TRUE))
    /\ UNCHANGED <<exists, k6obj, Cleanup, K6CloudClient, jobs, writes>>

TokenNotFoundNoRequeue == Result("none", FALSE)

\* line 92: the token is not found yet
TokenNotFound == Result("1s", FALSE)

\* createClient: loadToken fails, or the token is not there yet
ReconcileNoToken ==
    /\ pc = "idle"
    /\ exists
    /\ LoadsToken(k6obj)
    /\ \E token \in {"err", "notready"} :
        /\ inv' = [NewInvocation("undispatched") EXCEPT
                     !.token = token,
                     !.failures = IF token = "err" THEN {"load_token"} ELSE {}]
        /\ Return(IF token = "err" THEN Result("none", TRUE) ELSE TokenNotFound)
    /\ UNCHANGED <<exists, k6obj, Cleanup, K6CloudClient, jobs, writes>>

\* the run is fetched and, for a PLZ run, the client is there: dispatch
Dispatch(stage) ==
    /\ pc = "idle"
    /\ exists
    /\ k6obj.stage = stage
    /\ Bootstrap(k6obj, "ready")

\* the record of an invocation that got past createClient
Dispatched(stage0) ==
    [NewInvocation(stage0) EXCEPT
       !.token = IF LoadsToken(k6obj) THEN "ready" ELSE "none"]

\* k6.Initialize(): the defaults of a run
Initialize(obj) == [obj EXCEPT !.cond = [c \in Conds |-> "Unknown"]]

\* case "": Initialize, then the first UpdateStatus
ReconcileUnset ==
    /\ Dispatch("")
    /\ inv' = Dispatched("")
    /\ CallUpdateStatus(Initialize(k6obj), "initialize")
    /\ UNCHANGED <<exists, k6obj, Cleanup, jobs, writes>>

\* SetupCloudTest: creates the remote run, proposes its ID and
\* CloudTestRunCreated
SetupCloudTest(obj) ==
    \E outcome \in {"ok", "fail"} :
        IF outcome = "ok"
        THEN CallUpdateStatus(
                 UpdateCondition([obj EXCEPT !.id = "id"], "CloudTestRunCreated", "True"),
                 "return")
        ELSE Return(Result("none", TRUE))

\* lines 142-159: a cloud run is set up, or moves on once created
CloudInitialization(obj) ==
    IF IsTrue(obj, "CloudTestRun")
    THEN IF IsFalse(obj, "CloudTestRunCreated")
         THEN SetupCloudTest(obj)
         ELSE CallUpdateStatus([obj EXCEPT !.stage = "initialized"], "return")
    ELSE Return(Result("none", FALSE))

\* RunValidations: decides whether this is a cloud run
RunValidations(obj) ==
    \E outcome \in {"True", "False", "fail"} :
        IF outcome = "fail"
        THEN Return(Result("none", TRUE))
        ELSE CallUpdateStatus(UpdateCondition(obj, "CloudTestRun", outcome), "return")

\* case "initialization"
ReconcileInitialization ==
    /\ Dispatch("initialization")
    /\ inv' = Dispatched("initialization")
    /\ IF IsUnknown(k6obj, "CloudTestRun")
       THEN RunValidations(k6obj)
       ELSE IF IsFalse(k6obj, "CloudTestRun")
       THEN CallUpdateStatus([k6obj EXCEPT !.stage = "initialized"], "initialized")
       ELSE CloudInitialization(k6obj)
    /\ UNCHANGED <<exists, k6obj, Cleanup, jobs, writes>>

\* CreateJobs: creates the worker jobs and proposes stage created; a failure
\* is returned, or puts the run in stage error
CreateJobs(obj) ==
    \E outcome \in {"ok", "fail", "fatal"} :
        CASE outcome = "ok" ->
                /\ jobs' = MaxJobs
                /\ CallUpdateStatus([obj EXCEPT !.stage = "created"], "return")
          [] outcome = "fail" ->
                /\ Return(Result("none", TRUE))
                /\ UNCHANGED jobs
          [] outcome = "fatal" ->
                /\ CallUpdateStatus([obj EXCEPT !.stage = "error"], "return")
                /\ UNCHANGED jobs

\* case "initialized"
ReconcileInitialized ==
    /\ Dispatch("initialized")
    /\ inv' = Dispatched("initialized")
    /\ CreateJobs(k6obj)
    /\ UNCHANGED <<exists, k6obj, Cleanup, writes>>

\* StartJobs: starts the workers and proposes stage started
StartJobs(obj) ==
    \E outcome \in {"ok", "fail"} :
        IF outcome = "ok"
        THEN CallUpdateStatus(
                 UpdateCondition([obj EXCEPT !.stage = "started"],
                                 "TestRunRunning", "True"), "return")
        ELSE Return(Result("none", TRUE))

\* case "created"
ReconcileCreated ==
    /\ Dispatch("created")
    /\ inv' = Dispatched("created")
    /\ StartJobs(k6obj)
    /\ UNCHANGED <<exists, k6obj, Cleanup, jobs, writes>>

\* StopJobs: the forced stop of the workers; proposes stage stopped and
\* CloudTestRunAborted
StopJobs(obj) ==
    \E outcome \in {"ok", "fail"} :
        IF outcome = "ok"
        THEN CallUpdateStatus(
                 UpdateCondition([obj EXCEPT !.stage = "stopped"],
                                 "CloudTestRunAborted", "True"), "return")
        ELSE Return(Result("none", TRUE))

\* lines 172-180: a finalized or aborted run in stage started is left alone
Fluke(obj) ==
    \/ IsTrue(obj, "CloudTestRun") /\ IsTrue(obj, "CloudTestRunFinalized")
    \/ IsTrue(obj, "CloudTestRunAborted")

\* line 185: the abort check is made for PLZ runs only
AbortAware(obj) ==
    IsTrue(obj, "CloudPLZTestRun") /\ IsFalse(obj, "CloudTestRunAborted")

MarkStoppedSkipping(obj) ==
    UpdateCondition([obj EXCEPT !.stage = "finished"], "TestRunRunning", "False")

\* lines 204-208: the status proposed once all runners have finished
MarkStopped(obj) ==
    UpdateCondition([obj EXCEPT !.stage = "stopped"], "TestRunRunning", "False")

\* FinishJobs: whether all runners have finished
FinishJobs == BOOLEAN

StillRunningNoRequeue == Result("none", FALSE)

\* line 197: the test continues to execute, check in again in 15 seconds
StillRunning == Result("15s", FALSE)

\* case "started"
ReconcileStarted ==
    /\ Dispatch("started")
    /\ IF Fluke(k6obj)
       THEN /\ inv' = Dispatched("started")
            /\ Return(Result("none", FALSE))
       ELSE \E finished \in FinishJobs :
            IF ~finished
            THEN IF AbortAware(k6obj)
                 THEN \E state \in {"err", "aborted", "running"} :
                      LET abort == ShouldAbort(k6obj.id, state)
                          asked == QueriesCloud(k6obj.id)
                      IN /\ inv' = [Dispatched("started") EXCEPT
                                      !.finishJobs = "running",
                                      !.abortChecked = TRUE,
                                      !.abortId = k6obj.id,
                                      !.getState = IF asked THEN state ELSE "none",
                                      !.callIds = IF asked THEN {k6obj.id} ELSE {},
                                      !.shouldAbort = abort,
                                      !.stopJobs = abort]
                         /\ IF abort
                            THEN StopJobs(k6obj)
                            ELSE Return(StillRunning)
                 ELSE /\ inv' = [Dispatched("started") EXCEPT
                                   !.finishJobs = "running"]
                      /\ Return(StillRunning)
            ELSE /\ inv' = [Dispatched("started") EXCEPT
                              !.finishJobs = "finished"]
                 /\ IF IsTrue(k6obj, "TestRunRunning")
                    THEN CallUpdateStatus(MarkStopped(k6obj), "return")
                    ELSE Return(Result("none", FALSE))
    /\ UNCHANGED <<exists, k6obj, Cleanup, jobs, writes>>

\* line 220: a forced abort of a PLZ run
ForcedAbort(obj) ==
    IsTrue(obj, "CloudPLZTestRun") /\ IsTrue(obj, "CloudTestRunAborted")

\* lines 240-241: a cloud run that is not finalized yet
NeedsFinalize(obj) ==
    IsTrue(obj, "CloudTestRun") /\ IsFalse(obj, "CloudTestRunFinalized")

\* line 244: what Reconcile returns when cloud.FinishTestRun fails
FinalizeFailed == Result("none", FALSE)

\* lines 239-255: finalize a cloud run, then propose stage finished
FinalizeAndFinish(obj, done) ==
    IF NeedsFinalize(obj)
    THEN \E outcome \in {"ok", "fail"} :    \* cloud.FinishTestRun
            /\ inv' = [done EXCEPT !.finalize = outcome,
                                   !.callIds = @ \cup {obj.id},
                                   !.effects = IF outcome = "ok" THEN @ + 1 ELSE @]
            /\ IF outcome = "fail"
               THEN Return(FinalizeFailed)
               ELSE CallUpdateStatus(
                        UpdateCondition([obj EXCEPT !.stage = "finished"],
                                        "CloudTestRunFinalized", "True"), "finished")
    ELSE /\ inv' = done
         /\ CallUpdateStatus([obj EXCEPT !.stage = "finished"], "finished")

\* case "stopped"
ReconcileStopped ==
    /\ Dispatch("stopped")
    /\ IF ForcedAbort(k6obj)
       THEN \E poll \in PollOutcomes :
            LET allStopped == poll.allStopped
                polled == [Dispatched("stopped") EXCEPT
                             !.polled = TRUE, !.allStopped = allStopped,
                             !.failures = IF poll.listErr THEN {"list_services"} ELSE {}]
            IN IF allStopped
               THEN \* KillJobs; the source returns one value where the caller
                    \* reads (allDeleted, err): allDeleted is not determined
                    \E jobListErr \in BOOLEAN, left \in 0..jobs, allDeleted \in BOOLEAN :
                        LET killed == [polled EXCEPT
                                         !.killed = TRUE,
                                         !.killErr = KillJobsErr(jobListErr),
                                         !.allDeleted = ~jobListErr /\ allDeleted,
                                         !.failures = @ \cup KillJobsFailures(jobListErr, left),
                                         !.effects = KillJobsDeleted(jobListErr, jobs, left)]
                        IN IF KillJobsErr(jobListErr)
                           THEN /\ inv' = killed
                                /\ Return(Result("1s", TRUE))
                                /\ UNCHANGED jobs
                           ELSE /\ jobs' = left
                                /\ IF allDeleted
                                   THEN /\ inv' = killed
                                        /\ CallUpdateStatus(
                                               UpdateCondition(k6obj, "CloudTestRunAborted", "True"),
                                               "aborted")
                                   ELSE FinalizeAndFinish(k6obj, killed)
               ELSE /\ FinalizeAndFinish(k6obj, polled)
                    /\ UNCHANGED jobs
       ELSE /\ FinalizeAndFinish(k6obj, Dispatched("stopped"))
            /\ UNCHANGED jobs
    /\ UNCHANGED <<exists, k6obj, Cleanup, writes>>

CleanupAlways(cleanup) == TRUE

\* line 264: delete if configured
CleanupPost(cleanup) == cleanup = "post"

\* case "error", "finished": delete the run if configured; the result of
\* r.Delete is dropped
ReconcileTerminal ==
    /\ pc = "idle"
    /\ exists
    /\ k6obj.stage \in {"error", "finished"}
    /\ Bootstrap(k6obj, "ready")
    /\ IF CleanupPost(Cleanup)
       THEN \E deleted \in BOOLEAN :
            /\ exists' = ~deleted
            /\ inv' = [Dispatched(k6obj.stage) EXCEPT
                         !.deleted = TRUE,
                         !.effects = IF deleted THEN 1 ELSE 0,
                         !.failures = IF deleted THEN {} ELSE {"delete_run"}]
       ELSE /\ inv' = Dispatched(k6obj.stage)
            /\ UNCHANGED exists
    /\ Return(Result("none", FALSE))
    /\ UNCHANGED <<k6obj, Cleanup, jobs, writes>>

----------------------------------------------------------------------------
(* Reconcile: what follows each UpdateStatus call *)

\* lines 106-112: after the defaults are persisted, propose "initialization"
AfterInitialize ==
    /\ pc = "after" /\ cont = "initialize"
    /\ IF upd.err
       THEN Return(Result("none", TRUE))
       ELSE CallUpdateStatus([k6 EXCEPT !.stage = "initialization"], "initialization")
    /\ UNCHANGED <<exists, k6obj, Cleanup, K6CloudClient, jobs, inv, writes>>

\* InitializeJobs: starts the initializer; its result is returned
InitializeJobs == \E failed \in BOOLEAN : Return(Result("none", failed))

\* lines 112-117: InitializeJobs runs only if the update happened
AfterInitialization ==
    /\ pc = "after" /\ cont = "initialization"
    /\ IF upd.err
       THEN Return(Result("none", TRUE))
       ELSE IF upd.ret
       THEN InitializeJobs
       ELSE Return(Result("none", FALSE))
    /\ UNCHANGED <<exists, k6obj, Cleanup, K6CloudClient, jobs, inv, writes>>

\* lines 131-159: a non-cloud run moved on; otherwise fall through
AfterInitialized ==
    /\ pc = "after" /\ cont = "initialized"
    /\ IF upd.err
       THEN Return(Result("none", TRUE))
       ELSE IF upd.ret
       THEN Return(Result("none", FALSE))
       ELSE CloudInitialization(k6)
    /\ UNCHANGED <<exists, k6obj, Cleanup, K6CloudClient, jobs, inv, writes>>

\* lines 153-159, 210-217 and the collaborators: the error of UpdateStatus is
\* returned, with no requeue
AfterUpdate ==
    /\ pc = "after" /\ cont = "return"
    /\ Return(Result("none", upd.err))
    /\ UNCHANGED <<exists, k6obj, Cleanup, K6CloudClient, jobs, inv, writes>>

\* lines 230-255: after CloudTestRunAborted is persisted, go on to finalize
AfterAborted ==
    /\ pc = "after" /\ cont = "aborted"
    /\ IF upd.err
       THEN /\ Return(Result("none", TRUE))
            /\ UNCHANGED inv
       ELSE FinalizeAndFinish(k6, inv)
    /\ UNCHANGED <<exists, k6obj, Cleanup, K6CloudClient, jobs, writes>>

FinishedRequeueNone == "none"

\* line 260: the requeue issued by stage stopped
FinishedRequeue == "1s"

\* lines 255-260
AfterFinished ==
    /\ pc = "after" /\ cont = "finished"
    /\ IF upd.err
       THEN Return(Result("none", TRUE))
       ELSE Return(Result(FinishedRequeue, FALSE))
    /\ UNCHANGED <<exists, k6obj, Cleanup, K6CloudClient, jobs, inv, writes>>

----------------------------------------------------------------------------
(* Environment *)

\* the run object is deleted by its owner
ExternalDelete ==
    /\ exists
    /\ exists' = FALSE
    /\ UNCHANGED <<k6obj, Cleanup, K6CloudClient, jobs, pc, cont, k6,
                   proposedStatus, cleanObj, res, inv, upd, writes>>

\* another writer persists forward progress of its own: a later stage, or a
\* condition that was not yet evaluated
OtherWriter ==
    /\ exists
    /\ writes < MaxWrites
    /\ writes' = writes + 1
    /\ \/ \E s \in Stages :
            /\ StageForward(k6obj.stage, s)
            /\ k6obj' = [k6obj EXCEPT !.stage = s]
       \/ \E c \in Conds, v \in {"True", "False"} :
            /\ IsUnknown(k6obj, c)
            /\ k6obj' = UpdateCondition(k6obj, c, v)
    /\ UNCHANGED <<exists, Cleanup, K6CloudClient, jobs, pc, cont, k6,
                   proposedStatus, cleanObj, res, inv, upd>>

----------------------------------------------------------------------------
(* Specifications *)

\* the conditions a run can be found with; Reconcile reads CloudPLZTestRun and
\* TestRunRunning through IsTrue alone, so two values each cover its branches
FoundConds ==
    {c \in [Conds -> Tri] : /\ c["CloudPLZTestRun"] # "Unknown"
                            /\ c["TestRunRunning"] # "False"}

\* the operator starts on a run whose persisted status is whatever an earlier
\* operator process or another client left
InitRun(conds) ==
    /\ exists = TRUE
    /\ k6obj \in [stage : Stages, cond : conds, id : TestRunIDs]
    /\ Cleanup \in {"never", "post"}
    /\ K6CloudClient = FALSE
    /\ jobs = IF k6obj.stage \in {"", "initialization", "initialized"}
              THEN 0 ELSE MaxJobs
    /\ pc = "idle"
    /\ cont = "none"
    /\ k6 = EmptyStatus
    /\ proposedStatus = EmptyStatus
    /\ cleanObj = EmptyStatus
    /\ res = Result("none", FALSE)
    /\ inv = NewInvocation("none")
    /\ upd = NoUpdate
    /\ writes = 0

Init == InitRun(FoundConds)

\* runs picked for the interleavings with another writer: a fresh run, a local
\* run, a cloud run and a PLZ run under forced abort
WriterConds ==
    {EmptyStatus.cond,
     [EmptyStatus.cond EXCEPT !["CloudTestRun"] = "False",
                              !["TestRunRunning"] = "True"],
     [EmptyStatus.cond EXCEPT !["CloudTestRun"] = "True",
                              !["CloudTestRunCreated"] = "True",
                              !["CloudTestRunFinalized"] = "False"],
     [EmptyStatus.cond EXCEPT !["CloudTestRun"] = "True",
                              !["CloudPLZTestRun"] = "True",
                              !["CloudTestRunAborted"] = "True",
                              !["CloudTestRunFinalized"] = "False"]}

InitW == InitRun(WriterConds)

\* StoppedJobs as the forced abort of stage stopped calls it, on every list
\* of probe results
PollStopped ==
    /\ pc = "idle"
    /\ exists
    /\ k6obj.stage = "stopped"
    /\ ForcedAbort(k6obj)
    /\ \E listErr \in BOOLEAN, probes \in ProbeLists :
        inv' = [NewInvocation("stopped") EXCEPT
                  !.polled = TRUE, !.listErr = listErr,
                  !.probes = IF listErr THEN <<>> ELSE probes,
                  !.allStopped = StoppedJobs(listErr, probes)]
    /\ UNCHANGED <<exists, k6obj, Cleanup, K6CloudClient, jobs, pc, cont, k6,
                   proposedStatus, cleanObj, res, upd, writes>>

InitPoll == InitW /\ k6obj.stage = "stopped" /\ ForcedAbort(k6obj)

SpecPoll == InitPoll /\ [][PollStopped]_vars

Reconcile ==
    \/ ReconcileNotFound
    \/ ReconcileGetError
    \/ ReconcileNoToken
    \/ ReconcileUnset
    \/ ReconcileInitialization
    \/ ReconcileInitialized
    \/ ReconcileCreated
    \/ ReconcileStarted
    \/ ReconcileStopped
    \/ ReconcileTerminal
    \/ Refetch
    \/ Patch
    \/ AfterInitialize
    \/ AfterInitialization
    \/ AfterInitialized
    \/ AfterUpdate
    \/ AfterAborted
    \/ AfterFinished

Next == Reconcile \/ ExternalDelete

Spec == Init /\ [][Next]_vars

NextW == Reconcile \/ ExternalDelete \/ OtherWriter

SpecW == InitW /\ [][NextW]_vars

----------------------------------------------------------------------------
(* Properties *)

\* one step of the persisted stage: it stays, moves to the next stage of the
\* fixed order, or enters error
StageStep(old, new) ==
    \/ new = old
    \/ new = "error" /\ old \notin {"error", "finished"}
    \/ /\ old # "error" /\ new # "error"
       /\ Rank(new) = Rank(old) + 1

\* C1: over any sequence of Reconcile invocations the persisted stage never
\* moves backward and never skips a stage of the fixed order; error is entered
\* from failure paths only.
C1_StageForwardOnly == [][StageStep(k6obj.stage, k6obj'.stage)]_vars

\* a run driven from stopped to finished by a status patch
C1_Witness ==
    /\ pc = "after"
    /\ upd.ret
    /\ inv.stage0 = "stopped"
    /\ k6obj.stage = "finished"

\* new is in no field older than old
NotOlder(old, new) ==
    /\ new.stage = old.stage \/ StageForward(old.stage, new.stage)
    /\ \A c \in Conds : old.cond[c] # "Unknown" => new.cond[c] = old.cond[c]
    /\ old.id # "" => new.id = old.id

\* C2: the patch of UpdateStatus never overwrites newer progress that another
\* writer persisted, also when that write falls between the refetch and the
\* patch: the status after the patch is in no field older than the one before.
C2_NoClobber ==
    [][pc = "patch" /\ pc' = "after" => NotOlder(k6obj, k6obj')]_vars

\* C3 as stated: a patch is issued and "update happened" is returned exactly
\* when the refetch finds the run and the merge changes it.
C3_PatchedIffNewer ==
    pc = "after" =>
        ((upd.issued /\ upd.ret) <=> (upd.fetch = "ok" /\ upd.changed))

\* C3, amended: a patch is issued exactly when the refetch finds the run and
\* the merge changes it; "update happened" is returned exactly when that patch
\* also succeeds; a run that is not found, or a stale or equal proposal, gives
\* no write, "no update happened", no error and an unchanged persisted status.
C3_UpdateStatus ==
    /\ [](pc = "after" =>
            /\ upd.issued <=> (upd.fetch = "ok" /\ upd.changed)
            /\ upd.ret <=> (upd.issued /\ ~upd.err)
            /\ (upd.fetch = "notfound" \/ (upd.fetch = "ok" /\ ~upd.changed))
                  => (~upd.issued /\ ~upd.ret /\ ~upd.err))
    /\ [][pc = "refetch" /\ pc' = "after" => k6obj' = k6obj]_vars

\* a stale proposal: the persisted stage is ahead of the proposed one
C3_Witness ==
    /\ pc = "after"
    /\ upd.fetch = "ok"
    /\ ~upd.changed
    /\ StageForward(proposedStatus.stage, k6obj.stage)
    /\ proposedStatus.stage = "initialized"
    /\ k6obj.stage = "started"

\* C4: StoppedJobs is fail-open: with a listed endpoint whose probe got no
\* response, an error-range code, a read error or a decode error, it returns
\* false whatever the other endpoints report.
C4_FailOpen ==
    (/\ inv.polled
     /\ ~inv.listErr
     /\ \E i \in DOMAIN inv.probes : inv.probes[i] \in FailedProbes)
        => ~inv.allStopped

\* C5: over endpoints whose payload was parsed, StoppedJobs returns true
\* exactly when none reports stopped=false: true when all report stopped=true
\* (and for no endpoint at all), false when one reports stopped=false.
C5_StoppedIffNoneRunning ==
    (/\ inv.polled
     /\ ~inv.listErr
     /\ \A i \in DOMAIN inv.probes : inv.probes[i] \in {"stopped_true", "stopped_false"})
        => (inv.allStopped <=>
               \A i \in DOMAIN inv.probes : inv.probes[i] = "stopped_true")

\* C6: ShouldAbort is fail-closed: it returns true only on a retrieved state
\* that reports aborted, makes no query on an empty test run ID, returns false
\* on a failed query; the forced stop is called only when it returned true,
\* and when it returned false Reconcile returns requeue-after(15s), no error.
C6_AbortFailClosed ==
    inv.abortChecked =>
        /\ inv.shouldAbort => inv.getState = "aborted"
        /\ inv.abortId = "" => (inv.getState = "none" /\ ~inv.shouldAbort)
        /\ inv.getState = "err" => ~inv.shouldAbort
        /\ inv.stopJobs => inv.shouldAbort
        /\ (pc = "idle" /\ ~inv.shouldAbort) => res = Result("15s", FALSE)

\* the abort check of a PLZ run failed and the run keeps waiting
C6_Witness ==
    /\ pc = "idle"
    /\ inv.abortChecked
    /\ inv.getState = "err"
    /\ res = Result("15s", FALSE)

C8_FinalizeRetried ==
    (pc = "idle" /\ inv.finalize = "fail") => res.requeue # "none"

C10_WaitsForWorkers ==
    /\ inv.killed => (inv.polled /\ inv.allStopped)
    /\ (/\ pc = "after" /\ cont = "finished" /\ upd.ret
        /\ inv.stage0 = "stopped" /\ inv.polled)
          => (inv.allStopped /\ inv.killed)

\* C11: KillJobs goes through every matched job handle, and when the deletion
\* of a handle fails it returns an error and reports that not all handles
\* were deleted.
C11_KillAllReports ==
    (inv.killed /\ "delete_job" \in inv.failures)
        => (inv.killErr /\ ~inv.allDeleted)

\* C12: the reconciler calls the deletion of the run only in an invocation
\* dispatched in stage finished or error, and only with cleanup policy post
\* (so never with policy never); an invocation dispatched in stage finished
\* or error returns without a status write and changes neither the stage nor
\* a condition.
C12_CleanupGating ==
    /\ [](inv.deleted =>
            (inv.stage0 \in {"finished", "error"} /\ Cleanup = "post"))
    /\ [][inv'.stage0 \in {"finished", "error"} =>
            (pc' = "idle" /\ k6obj' = k6obj)]_vars

\* a finished run with policy post was deleted by the reconciler
C12_Witness ==
    /\ pc = "idle"
    /\ inv.stage0 = "finished"
    /\ inv.deleted
    /\ Cleanup = "post"
    /\ ~exists

\* C13: an invocation dispatched in stage started whose worker poll reports
\* that not all workers have stopped, and in which no abort is signalled,
\* returns requeue-after(15s) with no error at once, with no status write:
\* the persisted stage and conditions are unchanged.
C13_StillRunning ==
    [][(/\ pc = "idle"
        /\ inv'.stage0 = "started"
        /\ inv'.finishJobs = "running"
        /\ ~inv'.shouldAbort)
          => (/\ pc' = "idle"
              /\ res' = Result("15s", FALSE)
              /\ k6obj' = k6obj)]_vars

\* a run that no abort check applies to keeps waiting for its workers
C13_Witness ==
    /\ pc = "idle"
    /\ inv.stage0 = "started"
    /\ inv.finishJobs = "running"
    /\ ~inv.abortChecked
    /\ k6obj.stage = "started"
    /\ res = Result("15s", FALSE)

\* C14: an invocation dispatched in stage started on a run that is neither
\* finalized nor aborted, whose worker poll reports all workers stopped and
\* whose persistence calls succeed, leaves the run in stage stopped with
\* TestRunRunning cleared, whatever TestRunRunning was.
C14_StoppedOnceFinished ==
    (/\ pc = "idle"
     /\ inv.stage0 = "started"
     /\ inv.finishJobs = "finished"
     /\ ~res.err
     /\ ~inv.notFound)
        => (k6obj.stage = "stopped" /\ IsFalse(k6obj, "TestRunRunning"))

\* C15: for a run with CloudPLZTestRun true, when the cloud client is not set
\* and the token is not there yet, Reconcile returns requeue-after(1s) with no
\* error at once: no stage is dispatched, the stage and the conditions are
\* unchanged, and the cloud client stays unset.
C15_TokenNotReady ==
    /\ [](inv.token = "notready" =>
            /\ IsTrue(k6obj, "CloudPLZTestRun")
            /\ inv = [NewInvocation("undispatched") EXCEPT !.token = "notready"]
            /\ pc = "idle"
            /\ res = Result("1s", FALSE)
            /\ ~K6CloudClient)
    /\ [][inv'.token = "notready" =>
            (k6obj' = k6obj /\ K6CloudClient' = K6CloudClient)]_vars

\* a PLZ run in stage started waits for its token
C15_Witness ==
    /\ pc = "idle"
    /\ inv.token = "notready"
    /\ IsTrue(k6obj, "CloudPLZTestRun")
    /\ k6obj.stage = "started"
    /\ ~K6CloudClient
    /\ res = Result("1s", FALSE)

\* C16: the cloud client, once set, is never unset; it is set only by an
\* invocation that looked the token up and found it; and an invocation that
\* begins with the client set looks no token up, so it builds no second
\* client.
C16_OneCloudClient ==
    /\ [][K6CloudClient => K6CloudClient']_vars
    /\ [][(~K6CloudClient /\ K6CloudClient') =>
            (pc = "idle" /\ inv'.token = "ready")]_vars
    /\ [][(pc = "idle" /\ K6CloudClient /\ inv' # inv) =>
            inv'.token = "none"]_vars

\* a PLZ run is dispatched with the client of an earlier invocation
C16_Witness ==
    /\ pc = "idle"
    /\ K6CloudClient
    /\ IsTrue(k6obj, "CloudPLZTestRun")
    /\ inv.stage0 = "started"
    /\ inv.token = "none"

\* C17: an invocation of Reconcile performs at most one forward-moving side
\* effect: among its status patches that were applied, its bulk delete of
\* worker jobs, its remote finalize and its deletion of the run, at most one
\* takes place.
C17_OneEffect == inv.effects <= 1

\* C18: re-invoking Reconcile applies no side effect a second time; for the
\* remote finalize: when the last invocation finalized the remote run, the
\* invocation that follows it does not finalize it again.
C18_FinalizedOnce ==
    [][(pc = "idle" /\ inv.finalize = "ok" /\ pc' = "refetch")
          => inv'.finalize # "ok"]_vars

\* C19: an invocation in which a list, a get, a status patch or a delete (of
\* a worker job or of the run) failed returns an error.
C19_FailuresSurfaced ==
    (pc = "idle" /\ inv.failures # {}) => res.err

\* C20: a cloud run that the handler of stage stopped has just persisted in
\* stage finished is finalized: CloudTestRun = True implies
\* CloudTestRunFinalized = True.
C20_FinishedIsFinalized ==
    (/\ pc = "after"
     /\ cont = "finished"
     /\ upd.ret
     /\ inv.stage0 = "stopped"
     /\ k6obj.stage = "finished"
     /\ IsTrue(k6obj, "CloudTestRun"))
        => IsTrue(k6obj, "CloudTestRunFinalized")

====
